---- MODULE Spec2Model ----
(***************************************************************************)
(* FontCache (gpui/src/fonts.rs): a memoizing layer over the platform font *)
(* system, shared between threads behind one parking_lot RwLock.           *)
(*                                                                         *)
(* Each thread runs one cache operation at a time.  A step of a thread is  *)
(* one lock operation or the code that runs between two lock operations.   *)
(* Option<T> values are sequences of length at most one: <<>> is None and  *)
(* <<x>> is Some(x).  An f32 quotient a / b is kept exact as <<a, b>>.     *)
(***************************************************************************)
EXTENDS Integers, Sequences, FiniteSets, TLC

\* ---------------------------------------------------------------- bounds
NumThreads == 2
MaxNames == 2
MaxCalls == 2
MaxOps == 3

Threads == 1..NumThreads

\* ------------------------------------------- platform::FontSystem (backend)
FamilyNames == {"Arial", "Mono", "NoM", "Empty", "Missing"}
Props == {"default", "bold"}
DefaultProperties == "default"
FontSizes == {12}
RawMetrics == {500}

\* load_family(name) -> Result<Vec<FontId>>: is the result Ok?
BackendLoadOk(name) == name # "Missing"

\* load_family(name): the fonts of an Ok result
BackendLoadFamily(name) ==
    CASE name = "Arial" -> <<1, 2>>
      [] name = "Mono"  -> <<3>>
      [] name = "NoM"   -> <<4, 5>>
      [] OTHER          -> << >>

BackendFonts == 1..5

\* glyph_for_char(font_id, 'm') -> Option<GlyphId>
GlyphForChar(font_id) == IF font_id = 5 THEN << >> ELSE <<100 + font_id>>

FontStyle(font_id) == IF font_id \in {2, 5} THEN "bold" ELSE "default"

RECURSIVE FirstWithStyle(_, _)
FirstWithStyle(font_ids, properties) ==
    IF font_ids = << >> THEN << >>
    ELSE IF FontStyle(Head(font_ids)) = properties THEN <<Head(font_ids)>>
    ELSE FirstWithStyle(Tail(font_ids), properties)

\* select_font(font_ids, properties) -> Option<FontId>
BackendSelectFont(font_ids, properties) == FirstWithStyle(font_ids, properties)

\* font_metrics(font_id) -> Metrics
FontMetrics(font_id) ==
    [bounding_box |-> <<600 + font_id, 1200 + font_id>>,
     cap_height   |-> 700 + font_id,
     ascent       |-> 800 + font_id,
     descent      |-> 200 + font_id,
     units_per_em |-> IF font_id % 2 = 0 THEN 2048 ELSE 1000]

\* typographic_bounds(font_id, glyph_id) -> Result<RectF>: the width
TypographicBoundsWidth(font_id, glyph_id) == 500 + glyph_id

\* ------------------------------------------------------------------ state
VARIABLES
    families,         \* FontCacheState.families: Seq of [name, font_ids]
    font_selections,  \* FontCacheState.font_selections: <<family_id, properties>> -> FontId
    metrics,          \* FontCacheState.metrics: FontId -> Metrics
    readers,          \* threads holding a shared read guard of the RwLock
    upgradable,       \* threads holding the upgradable read guard
    writer,           \* threads holding the exclusive guard
    pc,               \* where each thread is
    call,             \* the operation a thread runs and its arguments
    loc,              \* the operation's local variables
    ret,              \* what the thread's last operation returned
    select_calls,     \* backend select_font calls per key (saturating)
    metrics_calls,    \* backend font_metrics calls per FontId (saturating)
    sel_returned,     \* FontIds that select_font has returned, per key
    started,          \* operations invoked so far
    assigned          \* FamilyId returned by the call that registered a name

cache == <<families, font_selections, metrics>>
lock == <<readers, upgradable, writer>>
thread == <<pc, call, loc, ret>>
ghost == <<select_calls, metrics_calls, sel_returned, assigned>>
vars == <<families, font_selections, metrics, readers, upgradable, writer,
          pc, call, loc, ret, started, select_calls, metrics_calls, sel_returned, assigned>>

\* ------------------------------------------------------------ small tools
Sat(n) == IF n < MaxCalls THEN n + 1 ELSE MaxCalls

Insert(map, key, value) ==
    [k \in (DOMAIN map) \cup {key} |-> IF k = key THEN value ELSE map[k]]

EmptyMap == [k \in {} |-> 0]

RECURSIVE SeqsUpTo(_, _)
SeqsUpTo(S, n) ==
    IF n = 0 THEN {<< >>}
    ELSE LET shorter == SeqsUpTo(S, n - 1)
         IN  shorter \cup {Append(s, x) : s \in shorter, x \in S}

Ok(v) == [kind |-> "Ok", val |-> v]
ErrGlyph == [kind |-> "ErrGlyph", val |-> << >>]
ErrNoMatch == [kind |-> "ErrNoMatch", val |-> << >>]
Panic == [kind |-> "Panic", val |-> << >>]
NoRet == [kind |-> "None", val |-> << >>]

\* ------------------------------------------------- parking_lot::RwLock
\* upgrade() sets the writer bit at once and then waits for the readers to
\* leave: a thread that waits in upgrade() already keeps new readers out.
UpgradePcs == {"lf_upgrade", "sf_upgrade", "m_upgrade"}
UpgradePending == \E u \in upgradable : pc[u] \in UpgradePcs

\* RwLock::read
CanRead(t) == writer = {} /\ ~UpgradePending

\* RwLock::upgradable_read: one upgradable guard at a time, beside readers
CanUpgradableRead_shared(t) == writer = {}

CanUpgradableRead(t) == writer = {} /\ upgradable = {}

\* RwLockUpgradableReadGuard::upgrade: waits until no shared guard is left
CanUpgrade_others(t) == t \in upgradable /\ readers \ {t} = {}

CanUpgrade(t) == t \in upgradable /\ readers = {}

\* ------------------------------------------------------------------- Init
NoCall ==
    [op |-> "none", names |-> << >>, family_id |-> 0, properties |-> DefaultProperties,
     font_id |-> 0, font_size |-> 0, f |-> "none", raw |-> 0]

\* i, font_ids: load_family's loop position and loaded fonts; todo, got, fetched: the
\* metric() calls still to make, their results, and metric()'s local `metrics`;
\* loaded: the names this call asked the backend to load; first_known: whether the
\* first candidate was registered when the call began
NoLoc ==
    [i |-> 0, font_ids |-> << >>, loaded |-> << >>, todo |-> << >>, got |-> << >>,
     fetched |-> << >>, first_known |-> FALSE]

\* FontCache::new
Init ==
    /\ families = << >>
    /\ font_selections = EmptyMap
    /\ metrics = EmptyMap
    /\ readers = {}
    /\ upgradable = {}
    /\ writer = {}
    /\ pc = [t \in Threads |-> "idle"]
    /\ call = [t \in Threads |-> NoCall]
    /\ loc = [t \in Threads |-> NoLoc]
    /\ ret = [t \in Threads |-> NoRet]
    /\ select_calls = EmptyMap
    /\ metrics_calls = EmptyMap
    /\ sel_returned = EmptyMap
    /\ assigned = EmptyMap
    /\ started = 0

Free(t) == pc[t] \in {"idle", "done"} /\ started < MaxOps

\* a thread returns: its guards are dropped by the step that calls this
Return(t, value) ==
    /\ pc' = [pc EXCEPT ![t] = "done"]
    /\ ret' = [ret EXCEPT ![t] = value]

\* ------------------------------------------------------------ load_family
NameLists == SeqsUpTo(FamilyNames, MaxNames)

Registered(name) == \E ix \in 1..Len(families) : families[ix].name = name

CallLoadFamily(t) ==
    /\ Free(t)
    /\ \E names \in NameLists :
         /\ call' = [call EXCEPT ![t] = [NoCall EXCEPT !.op = "load_family", !.names = names]]
         /\ loc' = [loc EXCEPT ![t] =
                      [NoLoc EXCEPT !.i = 1,
                                    !.first_known = names # << >> /\ Registered(names[1])]]
    /\ pc' = [pc EXCEPT ![t] = "lf_loop"]
    /\ ret' = [ret EXCEPT ![t] = NoRet]
    /\ started' = started + 1
    /\ UNCHANGED <<cache, lock, ghost>>

\* for name in names: the candidate of the current iteration
CurName_reverse(t) == call[t].names[Len(call[t].names) + 1 - loc[t].i]

CurName(t) == call[t].names[loc[t].i]

\* for name in names: the list is exhausted
LfExhausted(t) ==
    /\ pc[t] = "lf_loop"
    /\ loc[t].i > Len(call[t].names)
    /\ Return(t, ErrNoMatch)
    /\ UNCHANGED <<started, cache, lock, call, loc, ghost>>

\* let state = self.0.upgradable_read();
LfAcquire(t) ==
    /\ pc[t] = "lf_loop"
    /\ loc[t].i <= Len(call[t].names)
    /\ CanUpgradableRead(t)
    /\ upgradable' = upgradable \cup {t}
    /\ pc' = [pc EXCEPT ![t] = "lf_read"]
    /\ UNCHANGED <<started, cache, readers, writer, call, loc, ret, ghost>>

\* state.families.iter().position(|f| f.name == *name): Option<usize>, 0-based
Position_never(fams, name) == << >>

Position_one_based(fams, name) ==
    LET hits == {ix \in 1..Len(fams) : fams[ix].name = name}
    IN  IF hits = {} THEN << >>
        ELSE <<CHOOSE ix \in hits : \A other \in hits : ix <= other>>

Position(fams, name) ==
    LET hits == {ix \in 1..Len(fams) : fams[ix].name = name}
    IN  IF hits = {} THEN << >>
        ELSE <<(CHOOSE ix \in hits : \A other \in hits : ix <= other) - 1>>

\* if let Some(ix) = position { return Ok(FamilyId(ix)); }
LfFound(t) ==
    /\ pc[t] = "lf_read"
    /\ Position(families, CurName(t)) # << >>
    /\ upgradable' = upgradable \ {t}
    /\ Return(t, Ok(Position(families, CurName(t))))
    /\ UNCHANGED <<started, cache, readers, writer, call, loc, ghost>>

\* position is None: the thread goes on to upgrade()
LfNotFound(t) ==
    /\ pc[t] = "lf_read"
    /\ Position(families, CurName(t)) = << >>
    /\ pc' = [pc EXCEPT ![t] = "lf_upgrade"]
    /\ UNCHANGED <<started, cache, lock, call, loc, ret, ghost>>

\* let mut state = RwLockUpgradableReadGuard::upgrade(state);
LfUpgrade(t) ==
    /\ pc[t] = "lf_upgrade"
    /\ CanUpgrade(t)
    /\ upgradable' = upgradable \ {t}
    /\ writer' = writer \cup {t}
    /\ pc' = [pc EXCEPT ![t] = "lf_write"]
    /\ UNCHANGED <<started, cache, readers, call, loc, ret, ghost>>

\* if let Ok(font_ids) = state.fonts.load_family(name) { if font_ids.is_empty() { continue; } ...
\* An Err or an empty result ends the iteration: the guard is dropped.
Usable_any(name) == BackendLoadOk(name)

\* if let Ok(font_ids) = .. { if font_ids.is_empty() { continue; } ..: is the result kept?
Usable(name) == BackendLoadOk(name) /\ BackendLoadFamily(name) # << >>

LfBackendLoad(t) ==
    /\ pc[t] = "lf_write"
    /\ LET name == CurName(t)
           font_ids == BackendLoadFamily(name)
           tried == Append(loc[t].loaded, name)
       IN  IF Usable(name)
           THEN /\ loc' = [loc EXCEPT ![t].font_ids = font_ids, ![t].loaded = tried]
                /\ pc' = [pc EXCEPT ![t] = "lf_loaded"]
                /\ UNCHANGED writer
           ELSE /\ loc' = [loc EXCEPT ![t].i = @ + 1, ![t].loaded = tried]
                /\ pc' = [pc EXCEPT ![t] = "lf_loop"]
                /\ writer' = writer \ {t}
    /\ UNCHANGED <<started, cache, readers, upgradable, call, ret, ghost>>

\* for font_id in &font_ids { if glyph_for_char(*font_id, 'm').is_none() { return Err } }
AllHaveGlyph_first(font_ids) == font_ids = << >> \/ GlyphForChar(font_ids[1]) # << >>

AllHaveGlyph_skipped(font_ids) == TRUE

AllHaveGlyph(font_ids) == \A k \in 1..Len(font_ids) : GlyphForChar(font_ids[k]) # << >>

\* let family_id = FamilyId(state.families.len());
NextFamilyId_one_based(fams) == Len(fams) + 1

NextFamilyId(fams) == Len(fams)

\* the glyph loop, then state.families.push(Family { name, font_ids }); Ok(family_id)
LfRegister_continue(t) ==
    /\ pc[t] = "lf_loaded"
    /\ writer' = writer \ {t}
    /\ IF AllHaveGlyph(loc[t].font_ids)
       THEN /\ families' = Append(families, [name |-> CurName(t), font_ids |-> loc[t].font_ids])
            /\ Return(t, Ok(<<NextFamilyId(families)>>))
            /\ assigned' = IF CurName(t) \in DOMAIN assigned THEN assigned
                           ELSE Insert(assigned, CurName(t), NextFamilyId(families))
            /\ UNCHANGED loc
       ELSE /\ loc' = [loc EXCEPT ![t].i = @ + 1]
            /\ pc' = [pc EXCEPT ![t] = "lf_loop"]
            /\ UNCHANGED <<families, assigned, ret>>
    /\ UNCHANGED <<started, font_selections, metrics, readers, upgradable, call,
                   select_calls, metrics_calls, sel_returned>>

LfRegister(t) ==
    /\ pc[t] = "lf_loaded"
    /\ writer' = writer \ {t}
    /\ IF AllHaveGlyph(loc[t].font_ids)
       THEN /\ families' = Append(families, [name |-> CurName(t), font_ids |-> loc[t].font_ids])
            /\ Return(t, Ok(<<NextFamilyId(families)>>))
            /\ assigned' = IF CurName(t) \in DOMAIN assigned THEN assigned
                           ELSE Insert(assigned, CurName(t), NextFamilyId(families))
       ELSE /\ Return(t, ErrGlyph)
            /\ UNCHANGED <<families, assigned>>
    /\ UNCHANGED <<started, font_selections, metrics, readers, upgradable, call, loc,
                   select_calls, metrics_calls, sel_returned>>

LoadFamilyStep(t) ==
    \/ LfExhausted(t)
    \/ LfAcquire(t)
    \/ LfFound(t)
    \/ LfNotFound(t)
    \/ LfUpgrade(t)
    \/ LfBackendLoad(t)
    \/ LfRegister(t)

\* ------------------------------------------- default_font and select_font
FamilyIdInputs == 0..(Cardinality({n \in FamilyNames : AllHaveGlyph(BackendLoadFamily(n))
                                                      /\ BackendLoadFamily(n) # << >>}) - 1)

\* select_font(family_id, properties)
CallSelectFont(t) ==
    /\ Free(t)
    /\ \E family_id \in FamilyIdInputs, properties \in Props :
         call' = [call EXCEPT ![t] = [NoCall EXCEPT !.op = "select_font",
                                                    !.family_id = family_id,
                                                    !.properties = properties]]
    /\ loc' = [loc EXCEPT ![t] = NoLoc]
    /\ pc' = [pc EXCEPT ![t] = "sf_wait"]
    /\ ret' = [ret EXCEPT ![t] = NoRet]
    /\ started' = started + 1
    /\ UNCHANGED <<cache, lock, ghost>>

CallDefaultFont_bold(t) ==
    /\ Free(t)
    /\ \E family_id \in FamilyIdInputs :
         call' = [call EXCEPT ![t] = [NoCall EXCEPT !.op = "default_font",
                                                    !.family_id = family_id,
                                                    !.properties = "bold"]]
    /\ loc' = [loc EXCEPT ![t] = NoLoc]
    /\ pc' = [pc EXCEPT ![t] = "sf_wait"]
    /\ ret' = [ret EXCEPT ![t] = NoRet]
    /\ started' = started + 1
    /\ UNCHANGED <<cache, lock, ghost>>

\* default_font(family_id): self.select_font(family_id, &Properties::default()).unwrap()
CallDefaultFont(t) ==
    /\ Free(t)
    /\ \E family_id \in FamilyIdInputs :
         call' = [call EXCEPT ![t] = [NoCall EXCEPT !.op = "default_font",
                                                    !.family_id = family_id,
                                                    !.properties = DefaultProperties]]
    /\ loc' = [loc EXCEPT ![t] = NoLoc]
    /\ pc' = [pc EXCEPT ![t] = "sf_wait"]
    /\ ret' = [ret EXCEPT ![t] = NoRet]
    /\ started' = started + 1
    /\ UNCHANGED <<cache, lock, ghost>>

SelectKey(t) == <<call[t].family_id, call[t].properties>>

\* let inner = self.0.upgradable_read();
SfAcquire(t) ==
    /\ pc[t] = "sf_wait"
    /\ CanUpgradableRead(t)
    /\ upgradable' = upgradable \cup {t}
    /\ pc' = [pc EXCEPT ![t] = "sf_read"]
    /\ UNCHANGED <<started, cache, readers, writer, call, loc, ret, ghost>>

\* inner.font_selections.get(&family_id).and_then(|f| f.get(properties))
Selection_first_font(key) ==
    IF key \in DOMAIN font_selections THEN <<families[key[1] + 1].font_ids[1]>> ELSE << >>

Selection(key) ==
    IF key \in DOMAIN font_selections THEN <<font_selections[key]>> ELSE << >>

Returned(key, font_id) ==
    Insert(sel_returned, key,
           (IF key \in DOMAIN sel_returned THEN sel_returned[key] ELSE {}) \cup {font_id})

\* Some(font_id) => Ok(*font_id)
SfHit(t) ==
    /\ pc[t] = "sf_read"
    /\ Selection(SelectKey(t)) # << >>
    /\ upgradable' = upgradable \ {t}
    /\ Return(t, Ok(Selection(SelectKey(t))))
    /\ sel_returned' = Returned(SelectKey(t), Selection(SelectKey(t))[1])
    /\ UNCHANGED <<started, cache, readers, writer, call, loc, select_calls, metrics_calls, assigned>>

\* None: the thread goes on to upgrade()
SfMiss(t) ==
    /\ pc[t] = "sf_read"
    /\ Selection(SelectKey(t)) = << >>
    /\ pc' = [pc EXCEPT ![t] = "sf_upgrade"]
    /\ UNCHANGED <<started, cache, lock, call, loc, ret, ghost>>

\* let mut inner = RwLockUpgradableReadGuard::upgrade(inner);
SfUpgrade(t) ==
    /\ pc[t] = "sf_upgrade"
    /\ CanUpgrade(t)
    /\ upgradable' = upgradable \ {t}
    /\ writer' = writer \cup {t}
    /\ pc' = [pc EXCEPT ![t] = "sf_write"]
    /\ UNCHANGED <<started, cache, readers, call, loc, ret, ghost>>

\* inner.fonts.select_font(&family.font_ids, properties).unwrap_or(family.font_ids[0])
Resolve_first(font_ids, properties) == font_ids[1]

Resolve(font_ids, properties) ==
    LET picked == BackendSelectFont(font_ids, properties)
    IN  IF picked = << >> THEN font_ids[1] ELSE picked[1]

\* &inner.families[family_id.0]: the family, or none when the index is out of range
FamilyAt_first(fams, family_id) ==
    IF family_id < Len(fams) THEN <<fams[family_id + 1]>>
    ELSE IF fams = << >> THEN << >> ELSE <<fams[1]>>

FamilyAt(fams, family_id) ==
    IF family_id < Len(fams) THEN <<fams[family_id + 1]>> ELSE << >>

\* let family = &inner.families[family_id.0]; ...; insert; Ok(font_id)
\* An index out of range, of families or of font_ids, panics: the unwinding drops the guard.
SfCompute(t) ==
    /\ pc[t] = "sf_write"
    /\ writer' = writer \ {t}
    /\ IF FamilyAt(families, call[t].family_id) = << >>
       THEN /\ Return(t, Panic)
            /\ UNCHANGED <<font_selections, select_calls, sel_returned>>
       ELSE LET family == FamilyAt(families, call[t].family_id)[1]
                key == SelectKey(t)
                calls == IF key \in DOMAIN select_calls THEN select_calls[key] ELSE 0
            IN  /\ select_calls' = Insert(select_calls, key, Sat(calls))
                /\ IF family.font_ids = << >>
                   THEN /\ Return(t, Panic)
                        /\ UNCHANGED <<font_selections, sel_returned>>
                   ELSE LET font_id == Resolve(family.font_ids, call[t].properties)
                        IN  /\ font_selections' = Insert(font_selections, key, font_id)
                            /\ Return(t, Ok(<<font_id>>))
                            /\ sel_returned' = Returned(key, font_id)
    /\ UNCHANGED <<started, families, metrics, readers, upgradable, call, loc, metrics_calls, assigned>>

SelectFontStep(t) ==
    \/ SfAcquire(t)
    \/ SfHit(t)
    \/ SfMiss(t)
    \/ SfUpgrade(t)
    \/ SfCompute(t)

\* ------------------------------------------------ metrics and measurement
QueryFonts == {1, 5}
Projections == {"bounding_box", "units_per_em"}
Measures == {"bounding_box", "line_height", "cap_height", "ascent", "descent"}

\* the closure F a caller hands to metric(): |m| m.<field>
Project(m, f) == IF f = "bounding_box" THEN m.bounding_box ELSE <<m[f]>>

\* the metric() calls an operation makes, in order, as the fields they read
Todo(op, f) ==
    CASE op = "metric"       -> <<f>>
      [] op = "bounding_box" -> <<"bounding_box", "units_per_em", "units_per_em">>
      [] op = "line_height"  -> <<"bounding_box", "units_per_em">>
      [] op = "scale_metric" -> <<"units_per_em">>
      [] op = "em_width"     -> <<"units_per_em">>
      [] OTHER               -> <<op, "units_per_em">>

\* scale_metric: metric * font_size / units_per_em
ScaleMetric(metric, font_size, units_per_em) == <<metric * font_size, units_per_em>>

\* what the operation returns once every metric() call of it has returned
Result(c, got) ==
    CASE c.op = "metric"       -> got[1]
      [] c.op = "bounding_box" -> ScaleMetric(got[1][1], c.font_size, got[2][1])
                                  \o ScaleMetric(got[1][2], c.font_size, got[3][1])
      [] c.op = "line_height"  -> ScaleMetric(got[1][2], c.font_size, got[2][1])
      [] c.op = "scale_metric" -> ScaleMetric(c.raw, c.font_size, got[1][1])
      [] OTHER                 -> ScaleMetric(got[1][1], c.font_size, got[2][1])

\* metric(font_id, f)
CallMetric(t) ==
    /\ Free(t)
    /\ \E font_id \in QueryFonts, f \in Projections :
         /\ call' = [call EXCEPT ![t] = [NoCall EXCEPT !.op = "metric", !.font_id = font_id,
                                                       !.f = f]]
         /\ loc' = [loc EXCEPT ![t] = [NoLoc EXCEPT !.todo = Todo("metric", f)]]
    /\ pc' = [pc EXCEPT ![t] = "m_wait"]
    /\ ret' = [ret EXCEPT ![t] = NoRet]
    /\ started' = started + 1
    /\ UNCHANGED <<cache, lock, ghost>>

\* bounding_box, line_height, cap_height, ascent, descent (font_id, font_size)
CallMeasure(t) ==
    /\ Free(t)
    /\ \E op \in Measures, font_id \in QueryFonts, font_size \in FontSizes :
         /\ call' = [call EXCEPT ![t] = [NoCall EXCEPT !.op = op, !.font_id = font_id,
                                                       !.font_size = font_size]]
         /\ loc' = [loc EXCEPT ![t] = [NoLoc EXCEPT !.todo = Todo(op, "none")]]
    /\ pc' = [pc EXCEPT ![t] = "m_wait"]
    /\ ret' = [ret EXCEPT ![t] = NoRet]
    /\ started' = started + 1
    /\ UNCHANGED <<cache, lock, ghost>>

\* scale_metric(metric, font_id, font_size)
CallScaleMetric(t) ==
    /\ Free(t)
    /\ \E raw \in RawMetrics, font_id \in QueryFonts, font_size \in FontSizes :
         call' = [call EXCEPT ![t] = [NoCall EXCEPT !.op = "scale_metric", !.raw = raw,
                                                    !.font_id = font_id,
                                                    !.font_size = font_size]]
    /\ loc' = [loc EXCEPT ![t] = [NoLoc EXCEPT !.todo = Todo("scale_metric", "none")]]
    /\ pc' = [pc EXCEPT ![t] = "m_wait"]
    /\ ret' = [ret EXCEPT ![t] = NoRet]
    /\ started' = started + 1
    /\ UNCHANGED <<cache, lock, ghost>>

\* em_width(font_id, font_size)
CallEmWidth(t) ==
    /\ Free(t)
    /\ \E font_id \in QueryFonts, font_size \in FontSizes :
         call' = [call EXCEPT ![t] = [NoCall EXCEPT !.op = "em_width", !.font_id = font_id,
                                                    !.font_size = font_size]]
    /\ loc' = [loc EXCEPT ![t] = NoLoc]
    /\ pc' = [pc EXCEPT ![t] = "ew_wait"]
    /\ ret' = [ret EXCEPT ![t] = NoRet]
    /\ started' = started + 1
    /\ UNCHANGED <<cache, lock, ghost>>

\* let state = self.0.read();
EwAcquire(t) ==
    /\ pc[t] = "ew_wait"
    /\ CanRead(t)
    /\ readers' = readers \cup {t}
    /\ pc' = [pc EXCEPT ![t] = "ew_read"]
    /\ UNCHANGED <<started, cache, upgradable, writer, call, loc, ret, ghost>>

\* glyph_for_char(font_id, 'm').unwrap(); typographic_bounds(font_id, glyph_id).unwrap();
\* then self.scale_metric(bounds.width(), ..) is entered with the read guard `state` alive.
\* An unwrap of None panics: the unwinding drops the guard.
EwQuery(t) ==
    /\ pc[t] = "ew_read"
    /\ LET glyph == GlyphForChar(call[t].font_id)
       IN  IF glyph = << >>
           THEN /\ Return(t, Panic)
                /\ readers' = readers \ {t}
                /\ UNCHANGED loc
           ELSE /\ loc' = [loc EXCEPT
                             ![t].got = <<<<TypographicBoundsWidth(call[t].font_id, glyph[1])>>>>,
                             ![t].todo = Todo("em_width", "none")]
                /\ pc' = [pc EXCEPT ![t] = "m_wait"]
                /\ UNCHANGED <<ret, readers>>
    /\ UNCHANGED <<started, cache, upgradable, writer, call, ghost>>

\* metric(): let state = self.0.upgradable_read();
MAcquire(t) ==
    /\ pc[t] = "m_wait"
    /\ CanUpgradableRead(t)
    /\ upgradable' = upgradable \cup {t}
    /\ pc' = [pc EXCEPT ![t] = "m_read"]
    /\ UNCHANGED <<started, cache, readers, writer, call, loc, ret, ghost>>

\* state.metrics.get(&font_id)
Memoized(font_id) == IF font_id \in DOMAIN metrics THEN <<metrics[font_id]>> ELSE << >>

\* the guards a thread holds when its operation returns are dropped: em_width's `state`
HeldAtReturn(t) == IF call[t].op = "em_width" THEN {t} ELSE {}

\* metric() returns `value` to its caller, which calls metric() again or returns itself
MetricReturns(t, value) ==
    LET got == Append(loc[t].got, value)
        todo == Tail(loc[t].todo)
    IN  /\ loc' = [loc EXCEPT ![t].got = got, ![t].todo = todo, ![t].fetched = << >>]
        /\ IF todo = << >>
           THEN /\ Return(t, Ok(Result(call[t], got)))
                /\ readers' = readers \ HeldAtReturn(t)
           ELSE /\ pc' = [pc EXCEPT ![t] = "m_wait"]
                /\ UNCHANGED <<ret, readers>>

\* Some(metrics) => f(metrics)
MHit(t) ==
    /\ pc[t] = "m_read"
    /\ Memoized(call[t].font_id) # << >>
    /\ upgradable' = upgradable \ {t}
    /\ MetricReturns(t, Project(Memoized(call[t].font_id)[1], Head(loc[t].todo)))
    /\ UNCHANGED <<started, cache, writer, call, ghost>>

\* None => let metrics = state.fonts.font_metrics(font_id); let metric = f(&metrics);
\* and the thread goes on to upgrade()
MMiss(t) ==
    /\ pc[t] = "m_read"
    /\ Memoized(call[t].font_id) = << >>
    /\ LET calls == IF call[t].font_id \in DOMAIN metrics_calls
                    THEN metrics_calls[call[t].font_id] ELSE 0
       IN  metrics_calls' = Insert(metrics_calls, call[t].font_id, Sat(calls))
    /\ loc' = [loc EXCEPT ![t].fetched = <<FontMetrics(call[t].font_id)>>]
    /\ pc' = [pc EXCEPT ![t] = "m_upgrade"]
    /\ UNCHANGED <<started, cache, lock, call, ret, select_calls, sel_returned, assigned>>

\* let mut state = RwLockUpgradableReadGuard::upgrade(state);
MUpgrade(t) ==
    /\ pc[t] = "m_upgrade"
    /\ CanUpgrade(t)
    /\ upgradable' = upgradable \ {t}
    /\ writer' = writer \cup {t}
    /\ pc' = [pc EXCEPT ![t] = "m_write"]
    /\ UNCHANGED <<started, cache, readers, call, loc, ret, ghost>>

\* state.metrics.insert(font_id, metrics); metric
MInsert(t) ==
    /\ pc[t] = "m_write"
    /\ metrics' = Insert(metrics, call[t].font_id, loc[t].fetched[1])
    /\ writer' = writer \ {t}
    /\ MetricReturns(t, Project(loc[t].fetched[1], Head(loc[t].todo)))
    /\ UNCHANGED <<started, families, font_selections, upgradable, call, ghost>>

MetricStep(t) ==
    \/ EwAcquire(t)
    \/ EwQuery(t)
    \/ MAcquire(t)
    \/ MHit(t)
    \/ MMiss(t)
    \/ MUpgrade(t)
    \/ MInsert(t)

\* ------------------------------------------------------------ the program
Next ==
    \E t \in Threads :
        \/ CallLoadFamily(t)
        \/ LfExhausted(t)
        \/ LfAcquire(t)
        \/ LfFound(t)
        \/ LfNotFound(t)
        \/ LfUpgrade(t)
        \/ LfBackendLoad(t)
        \/ LfRegister(t)
        \/ CallSelectFont(t)
        \/ CallDefaultFont(t)
        \/ SfAcquire(t)
        \/ SfHit(t)
        \/ SfMiss(t)
        \/ SfUpgrade(t)
        \/ SfCompute(t)
        \/ CallMetric(t)
        \/ CallMeasure(t)
        \/ CallScaleMetric(t)
        \/ CallEmWidth(t)
        \/ EwAcquire(t)
        \/ EwQuery(t)
        \/ MAcquire(t)
        \/ MHit(t)
        \/ MMiss(t)
        \/ MUpgrade(t)
        \/ MInsert(t)

Spec == Init /\ [][Next]_vars

\* a thread inside an operation keeps running; a blocked lock call returns once the
\* lock can be granted and stays grantable
Step(t) == LoadFamilyStep(t) \/ SelectFontStep(t) \/ MetricStep(t)

FairSpec == Init /\ [][Next]_vars /\ \A t \in Threads : WF_vars(Step(t))

\* ================================================================ claims
InCall(t) == pc[t] \notin {"idle", "done"}

IsSelect(t) == call[t].op \in {"select_font", "default_font"}

\* C1: whatever the interleaving of load_family calls, no two entries of the family
\* registry have the same name.
C1_NoDuplicateFamilies ==
    \A i, j \in 1..Len(families) : families[i].name = families[j].name => i = j

\* two threads raced for the same new name: one registered it, the other is still
\* inside load_family at that candidate
C1_Witness ==
    \E t, u \in Threads :
        /\ t # u
        /\ call[t].op = "load_family" /\ pc[t] = "done" /\ ret[t].kind = "Ok"
        /\ loc[t].loaded # << >>
        /\ call[u].op = "load_family" /\ pc[u] = "lf_read" /\ ~loc[u].first_known
        /\ CurName(u) = loc[t].loaded[Len(loc[t].loaded)]
        /\ Registered(CurName(u))

\* C2: a load_family call whose first candidate was registered when the call began
\* asks the backend for no family and returns the FamilyId that the registering
\* call returned; and no thread ever asks the backend to load a name that is
\* registered (the backend load count of a registered name does not increase).
C2_RegisteredNameIsServedFromRegistry ==
    /\ [](\A t \in Threads :
            (call[t].op = "load_family" /\ loc[t].first_known) =>
                /\ loc[t].loaded = << >>
                /\ call[t].names[1] \in DOMAIN assigned
                /\ pc[t] = "done" => ret[t] = Ok(<<assigned[call[t].names[1]]>>))
    /\ [][\A t \in Threads :
            (pc[t] = "lf_write" /\ pc'[t] # "lf_write") => ~Registered(CurName(t))]_vars

C2_Witness ==
    \E t \in Threads :
        /\ call[t].op = "load_family" /\ loc[t].first_known
        /\ pc[t] = "done" /\ ret[t].kind = "Ok"
        /\ Len(families) = 2 /\ ret[t].val = <<1>>

\* C3: the backend's select_font is invoked at most once per (family_id, properties)
\* key, and all select_font calls of a key that return a FontId return the same one.
C3_SelectOncePerKey ==
    /\ \A key \in DOMAIN select_calls : select_calls[key] <= 1
    /\ \A t, u \in Threads :
          (/\ IsSelect(t) /\ IsSelect(u) /\ SelectKey(t) = SelectKey(u)
           /\ pc[t] = "done" /\ pc[u] = "done"
           /\ ret[t].kind = "Ok" /\ ret[u].kind = "Ok") => ret[t] = ret[u]

\* one thread has resolved the key while another thread, racing for the same key,
\* is inside select_font
C3_Witness ==
    \E t, u \in Threads :
        /\ t # u
        /\ call[t].op = "select_font" /\ call[u].op = "select_font"
        /\ SelectKey(t) = SelectKey(u)
        /\ pc[t] = "done" /\ ret[t].kind = "Ok"
        /\ pc[u] = "sf_read"
        /\ select_calls[SelectKey(t)] = 1


\* C4: under fair scheduling every invoked cache operation eventually returns.
C4_EveryCallReturns == \A t \in Threads : InCall(t) ~> (pc[t] = "done")

\* C5: any two select_font calls of one (family_id, properties) key return the same
\* FontId, whatever runs between them: the FontIds returned for a key are at most one.
C5_SelectIsStable ==
    \A key \in DOMAIN sel_returned : Cardinality(sel_returned[key]) <= 1

\* two select_font calls of one key have both returned
C5_Witness ==
    \E t, u \in Threads :
        /\ t # u
        /\ call[t].op = "select_font" /\ call[u].op = "select_font"
        /\ SelectKey(t) = SelectKey(u)
        /\ pc[t] = "done" /\ pc[u] = "done"
        /\ ret[t].kind = "Ok" /\ ret[u].kind = "Ok"
        /\ sel_returned[SelectKey(t)] = {ret[t].val[1]}

C6_AllFail(names) ==
    \A k \in 1..Len(names) :
        /\ ~Registered(names[k])
        /\ ~BackendLoadOk(names[k]) \/ BackendLoadFamily(names[k]) = << >>

\* C6: while no candidate of a load_family call is registered and the backend fails
\* or returns no font for each of them, no step of the call changes the registry,
\* the selection index or the metrics index, and the call returns only the
\* "no matching family" error; the empty list is such a call.
C6_FailedLoadChangesNothing ==
    [][\A t \in Threads :
         (InCall(t) /\ call[t].op = "load_family" /\ C6_AllFail(call[t].names)
          /\ pc'[t] # pc[t]) =>
             /\ UNCHANGED cache
             /\ pc'[t] = "done" => ret'[t] = ErrNoMatch]_vars

C6_Witness ==
    \E t \in Threads :
        /\ call[t].op = "load_family" /\ pc[t] = "done"
        /\ Len(call[t].names) = 2 /\ C6_AllFail(call[t].names)
        /\ loc[t].loaded = call[t].names
        /\ ret[t] = ErrNoMatch
        /\ families # << >>

C7_LacksGlyph(font_ids) == \E k \in 1..Len(font_ids) : GlyphForChar(font_ids[k]) = << >>

\* C7: when the backend's font set for a candidate has a font without a glyph for 'm',
\* load_family returns the required-glyph error and the registry is unchanged; the
\* FamilyIds handed out by registrations are 0 .. registry length - 1 in every state,
\* so no id is skipped.
C7_MissingGlyphRegistersNothing ==
    /\ []({assigned[n] : n \in DOMAIN assigned} = 0..(Len(families) - 1))
    /\ [][\A t \in Threads :
            (pc[t] = "lf_loaded" /\ pc'[t] # pc[t] /\ C7_LacksGlyph(loc[t].font_ids)) =>
                (ret'[t] = ErrGlyph /\ families' = families)]_vars

\* a load failed for the glyph, and a registration received the last dense id
C7_Witness ==
    \E t, u \in Threads :
        /\ call[t].op = "load_family" /\ pc[t] = "done" /\ ret[t] = ErrGlyph
        /\ call[u].op = "load_family" /\ pc[u] = "done" /\ loc[u].loaded # << >>
        /\ Len(families) = 2 /\ ret[u] = Ok(<<1>>)

\* C8: the registry only grows at its end: a step that changes it appends one Family
\* and the thread that takes it returns the registry length before the push; every
\* registered Family stays at its index with its name and font_ids.
C8_RegistryAppendOnly ==
    [][/\ Len(families') >= Len(families)
       /\ \A ix \in 1..Len(families) : families'[ix] = families[ix]
       /\ \A t \in Threads :
            (families' # families /\ pc'[t] # pc[t]) =>
                /\ Len(families') = Len(families) + 1
                /\ pc'[t] = "done"
                /\ ret'[t] = Ok(<<Len(families)>>)
                /\ families'[Len(families')].name = CurName(t)]_vars

C8_Witness ==
    /\ Len(families) = 2
    /\ \E t \in Threads :
          /\ call[t].op = "load_family" /\ pc[t] = "done" /\ loc[t].loaded # << >>
          /\ ret[t] = Ok(<<1>>)
          /\ families[2].name = call[t].names[loc[t].i]

\* C9: every registered Family has at least one font, and each of its fonts has a
\* glyph for 'm' in the backend.
C9_FamiliesHaveGlyphFonts ==
    \A ix \in 1..Len(families) :
        /\ families[ix].font_ids # << >>
        /\ \A k \in 1..Len(families[ix].font_ids) :
              GlyphForChar(families[ix].font_ids[k]) # << >>

C9_Witness ==
    \E ix \in 1..Len(families) : Len(families[ix].font_ids) = 2

C10_Expected(font_ids, properties) ==
    IF BackendSelectFont(font_ids, properties) # << >>
    THEN BackendSelectFont(font_ids, properties)[1]
    ELSE font_ids[1]

\* C10: a select_font or default_font call whose family_id is loaded returns Ok with
\* the FontId the backend picks among the family's font_ids, or with the family's
\* first FontId when the backend picks none; it does not fail or abort.
C10_SelectNeverFails ==
    [][\A t \in Threads :
         (IsSelect(t) /\ InCall(t) /\ pc'[t] = "done"
          /\ call[t].family_id < Len(families)) =>
             ret'[t] = Ok(<<C10_Expected(families[call[t].family_id + 1].font_ids,
                                         call[t].properties)>>)]_vars

\* the fallback was used: the backend picks none and the first font is returned
C10_Witness ==
    \E t \in Threads :
        /\ IsSelect(t) /\ pc[t] = "done" /\ ret[t].kind = "Ok"
        /\ call[t].family_id < Len(families)
        /\ BackendSelectFont(families[call[t].family_id + 1].font_ids,
                             call[t].properties) = << >>
        /\ ret[t].val = <<families[call[t].family_id + 1].font_ids[1]>>

\* what select_font(family_id, properties) returns and the selection index it leaves,
\* when it takes its last step in the current state
C11_SelectWould(family_id, properties) ==
    LET key == <<family_id, properties>>
        font_id == IF Selection(key) # << >> THEN Selection(key)[1]
                   ELSE Resolve(families[family_id + 1].font_ids, properties)
    IN  [ret |-> Ok(<<font_id>>), index |-> Insert(font_selections, key, font_id)]

\* C11: for a loaded family_id, default_font returns what select_font(family_id,
\* default properties) returns in the same state and leaves the cache as that call
\* would: the same selection index, the registry and the metrics index unchanged.
C11_DefaultFontIsSelectFont ==
    [][\A t \in Threads :
         (call[t].op = "default_font" /\ InCall(t) /\ pc'[t] = "done"
          /\ call[t].family_id < Len(families)) =>
             /\ ret'[t] = C11_SelectWould(call[t].family_id, "default").ret
             /\ font_selections' = C11_SelectWould(call[t].family_id, "default").index
             /\ UNCHANGED <<families, metrics>>]_vars

\* default_font and select_font(.., default) have both returned the regular face of a
\* family that also has a bold face
C11_Witness ==
    \E t, u \in Threads :
        /\ call[t].op = "default_font" /\ pc[t] = "done" /\ ret[t].kind = "Ok"
        /\ call[u].op = "select_font" /\ call[u].properties = "default"
        /\ call[u].family_id = call[t].family_id
        /\ pc[u] = "done" /\ ret[u] = ret[t]
        /\ call[t].family_id < Len(families)
        /\ Len(families[call[t].family_id + 1].font_ids) = 2

\* C12: the backend's font_metrics is invoked at most once per FontId under every
\* interleaving of the metric-derived queries, and once a FontId is in the metrics
\* index every later query of it is served from the index: its entry stays as it is
\* and the backend is not asked again.
C12_MetricsOncePerFont ==
    /\ [](\A font_id \in DOMAIN metrics_calls : metrics_calls[font_id] <= 1)
    /\ [][\A font_id \in DOMAIN metrics :
            /\ font_id \in DOMAIN metrics'
            /\ metrics'[font_id] = metrics[font_id]
            /\ metrics_calls'[font_id] = metrics_calls[font_id]]_vars

\* two threads have queried the same font, one of them with two metric() calls, and
\* the backend was asked once
C12_Witness ==
    \E t, u \in Threads :
        /\ t # u
        /\ call[t].op = "line_height" /\ pc[t] = "done" /\ ret[t].kind = "Ok"
        /\ call[u].op = "metric" /\ pc[u] = "done" /\ ret[u].kind = "Ok"
        /\ call[u].font_id = call[t].font_id
        /\ call[t].font_id \in DOMAIN metrics
        /\ metrics_calls[call[t].font_id] = 1

\* C13: in every reachable state each entry (family_id, properties) -> font_id of the
\* selection index is what a recomputation gives (the backend's select_font over the
\* font_ids of family family_id, or font_ids[0] when it picks none), and each entry
\* of the metrics index is the backend's font_metrics of its FontId.
C13_IndexesMatchRecomputation ==
    /\ \A key \in DOMAIN font_selections :
          /\ key[1] < Len(families)
          /\ font_selections[key] = C10_Expected(families[key[1] + 1].font_ids, key[2])
    /\ \A font_id \in DOMAIN metrics : metrics[font_id] = FontMetrics(font_id)

\* the selection index holds a backend pick that is not the family's first font, and
\* the metrics index holds an entry
C13_Witness ==
    /\ \E key \in DOMAIN font_selections :
          /\ key[1] < Len(families)
          /\ font_selections[key] # families[key[1] + 1].font_ids[1]
    /\ DOMAIN metrics # {}

\* the program points of the metric accessor
C14_MetricPcs == {"m_wait", "m_read", "m_upgrade", "m_write"}

\* C14 as stated: em_width bypasses the metrics cache entirely: no step of an em_width
\* call enters the metric accessor, asks the backend for font_metrics or changes the
\* metrics index.
C14_EmWidthBypassesMetricsCache ==
    [][\A t \in Threads :
         (call[t].op = "em_width" /\ InCall(t) /\ pc'[t] # pc[t]) =>
             /\ pc'[t] \notin C14_MetricPcs
             /\ metrics_calls' = metrics_calls
             /\ metrics' = metrics]_vars

\* C14: em_width asks the backend for the glyph of 'm' and its typographic bounds on
\* every call, whatever the metrics index holds: a call that has reached its scaling
\* step or returned a width carries the bounds it fetched itself; and no step of an
\* em_width call changes the metrics index (its scaling step does go through the
\* metric accessor, which reads the index and asks font_metrics on a miss).
C14_EmWidthQueriesGlyphEachCall ==
    /\ [](\A t \in Threads :
            (/\ call[t].op = "em_width"
             /\ pc[t] \in C14_MetricPcs \/ (pc[t] = "done" /\ ret[t].kind = "Ok")) =>
                /\ GlyphForChar(call[t].font_id) # << >>
                /\ loc[t].got # << >>
                /\ loc[t].got[1] = <<TypographicBoundsWidth(call[t].font_id,
                                                            GlyphForChar(call[t].font_id)[1])>>)
    /\ [][\A t \in Threads :
            (call[t].op = "em_width" /\ InCall(t) /\ pc'[t] # pc[t]) =>
                metrics' = metrics]_vars

\* an em_width call is inside the metric accessor, has missed the metrics index and
\* has asked the backend for font_metrics
C14_Witness ==
    \E t \in Threads :
        /\ call[t].op = "em_width" /\ pc[t] = "m_upgrade"
        /\ loc[t].fetched = <<FontMetrics(call[t].font_id)>>
        /\ call[t].font_id \in DOMAIN metrics_calls
        /\ call[t].font_id \notin DOMAIN metrics

\* a candidate that is already registered or for which the backend returns fonts
C15_Succeeds(name) ==
    Registered(name) \/ (BackendLoadOk(name) /\ BackendLoadFamily(name) # << >>)

C15_Hits(names) == {k \in 1..Len(names) : C15_Succeeds(names[k])}

C15_First(names) == CHOOSE k \in C15_Hits(names) : \A other \in C15_Hits(names) : k <= other

\* C15 as stated: a load_family call that has returned, and whose list has a candidate
\* that is registered or loads non-empty, returned the family of the first such
\* candidate.
C15_ReturnsFirstSuccessful ==
    \A t \in Threads :
        (call[t].op = "load_family" /\ pc[t] = "done" /\ C15_Hits(call[t].names) # {}) =>
            /\ ret[t].kind = "Ok"
            /\ families[ret[t].val[1] + 1].name = call[t].names[C15_First(call[t].names)]

\* C15: load_family goes through the candidates in list order and stops at the first
\* one that is already registered or for which the backend returns a non-empty font
\* set: it returns that candidate's family when it is registered or all its fonts have
\* an 'm' glyph, and the required-glyph error otherwise; without such a candidate it
\* returns the no-match error. The candidates before it were each loaded once and
\* nothing was registered for them; the candidates after it are never reached.
C15_FirstUsableDecides ==
    /\ \A ix \in 1..Len(families) :
          BackendLoadOk(families[ix].name) /\ BackendLoadFamily(families[ix].name) # << >>
    /\ \A t \in Threads :
          (call[t].op = "load_family" /\ pc[t] # "idle") =>
              LET names == call[t].names
                  k == IF C15_Hits(names) = {} THEN Len(names) + 1 ELSE C15_First(names)
              IN  /\ loc[t].i <= k
                  /\ Len(loc[t].loaded) \in {loc[t].i - 1, loc[t].i}
                  /\ \A j \in 1..Len(loc[t].loaded) : loc[t].loaded[j] = names[j]
                  /\ pc[t] = "done" =>
                        /\ loc[t].i = k
                        /\ ret[t] = IF k > Len(names) THEN ErrNoMatch
                                    ELSE IF AllHaveGlyph(BackendLoadFamily(names[k]))
                                         THEN Ok(Position(families, names[k]))
                                         ELSE ErrGlyph

\* a call skipped a candidate the backend has no fonts for and returned the family
\* of the next one
C15_Witness ==
    \E t \in Threads :
        /\ call[t].op = "load_family" /\ pc[t] = "done" /\ ret[t].kind = "Ok"
        /\ Len(call[t].names) = 2 /\ loc[t].i = 2
        /\ ~C15_Succeeds(call[t].names[1])
        /\ families[ret[t].val[1] + 1].name = call[t].names[2]
        /\ loc[t].loaded = call[t].names

\* C16: a font set with a font that has no 'm' glyph ends the load_family call at
\* that candidate with the required-glyph error: the step that finds it returns the
\* error without moving to another candidate, and a call that returned the error
\* stopped at the candidate whose fonts lack the glyph, the last one it loaded,
\* whatever the later candidates are.
C16_MissingGlyphEndsCall ==
    /\ [](\A t \in Threads :
            (call[t].op = "load_family" /\ pc[t] = "done" /\ ret[t] = ErrGlyph) =>
                /\ loc[t].i <= Len(call[t].names)
                /\ C7_LacksGlyph(BackendLoadFamily(call[t].names[loc[t].i]))
                /\ Len(loc[t].loaded) = loc[t].i
                /\ loc[t].loaded[loc[t].i] = call[t].names[loc[t].i])
    /\ [][\A t \in Threads :
            (pc[t] = "lf_loaded" /\ pc'[t] # pc[t] /\ C7_LacksGlyph(loc[t].font_ids)) =>
                (pc'[t] = "done" /\ ret'[t] = ErrGlyph /\ loc'[t] = loc[t])]_vars

\* a call failed for the glyph at its first candidate although its second candidate
\* is a registered family
C16_Witness ==
    \E t \in Threads :
        /\ call[t].op = "load_family" /\ pc[t] = "done" /\ ret[t] = ErrGlyph
        /\ Len(call[t].names) = 2 /\ loc[t].i = 1
        /\ Registered(call[t].names[2])

\* C17 as stated: a thread that holds the exclusive guard is never at a point where
\* its next step asks the backend (load_family, glyph_for_char, select_font), and a
\* load_family call holds the exclusive guard only for a candidate it registers.
C17_ExclusiveOnlyForInsert ==
    \A t \in writer :
        /\ pc[t] \notin {"lf_write", "lf_loaded"}
        /\ ~(pc[t] = "sf_write" /\ call[t].family_id < Len(families))
        /\ call[t].op = "load_family" =>
              (Usable(CurName(t)) /\ AllHaveGlyph(BackendLoadFamily(CurName(t))))

\* a thread holds its upgradable guard and is about to serve a cache hit
C18_ServingHit(t) ==
    \/ pc[t] = "lf_read" /\ Position(families, CurName(t)) # << >>
    \/ pc[t] = "sf_read" /\ Selection(SelectKey(t)) # << >>
    \/ pc[t] = "m_read" /\ Memoized(call[t].font_id) # << >>

\* a thread asks for the lock for a lookup that the cache can serve
C18_WantsHit(t) ==
    \/ pc[t] = "lf_loop" /\ loc[t].i <= Len(call[t].names) /\ Registered(CurName(t))
    \/ pc[t] = "sf_wait" /\ Selection(SelectKey(t)) # << >>
    \/ pc[t] = "m_wait" /\ Memoized(call[t].font_id) # << >>

\* C18 as stated: a cache hit by one thread never blocks a cache hit by another: while
\* a thread is inside the lock serving a hit, a second thread whose lookup is a hit
\* too is let into the lock beside it.
C18_HitsRunConcurrently ==
    \A t, u \in Threads :
        (t # u /\ C18_ServingHit(t) /\ C18_WantsHit(u)) => CanUpgradableRead(u)

\* C19: a select_font call whose family_id indexes no registered family aborts and
\* leaves the selection index as it was, and in every reachable state each family_id
\* that is a key of the selection index is smaller than the registry length.
C19_UnloadedFamilyAborts ==
    /\ [](\A key \in DOMAIN font_selections : key[1] < Len(families))
    /\ [][\A t \in Threads :
            (IsSelect(t) /\ InCall(t) /\ pc'[t] = "done"
             /\ call[t].family_id >= Len(families)) =>
                (ret'[t] = Panic /\ font_selections' = font_selections)]_vars

\* a select_font call aborted on the id one past the only registered family, whose
\* own selection is memoized
C19_Witness ==
    \E t \in Threads :
        /\ call[t].op = "select_font" /\ pc[t] = "done" /\ ret[t] = Panic
        /\ Len(families) = 1 /\ call[t].family_id = 1
        /\ DOMAIN font_selections # {}

\* C20 as stated: a thread that asks for a guard holds none, and a thread that asks
\* for the upgrade holds its upgradable guard only.
C20_NoReacquire ==
    \A t \in Threads :
        /\ (\/ pc[t] \in {"sf_wait", "m_wait", "ew_wait"}
            \/ pc[t] = "lf_loop" /\ loc[t].i <= Len(call[t].names)) =>
               t \notin (readers \cup upgradable \cup writer)
        /\ pc[t] \in UpgradePcs => t \notin (readers \cup writer)

====
